---- MODULE Spec2Model ----
(***************************************************************************)
(* Student Performance Index (SPI) engine of the school performance        *)
(* dashboard (src/main.py).  calculate_student_performance_index is a pure *)
(* function of a student's record set and the passing score; it is         *)
(* modelled by operators over exact rationals (the Python floats are read  *)
(* as the real numbers they approximate) and applied by one action to      *)
(* inputs drawn by Init (Spec).  The dashboard's render pass, the          *)
(* module-level try block that loads the dataset, runs the cohort loop,    *)
(* the at-risk breakdown and the student lookup, is RenderSpec.            *)
(***************************************************************************)
EXTENDS Integers, Sequences, FiniteSets, TLC

\* the engine's arguments and what it returned
VARIABLES student_data, passing_score, pc, spi_score, status, status_color, details

\* the render pass: the dataset file and its frame, the position in the
\* script, what has been shown, the engine invocations made so far, the
\* cohort tables and the lookup
VARIABLES file_exists, absent_column, df, rpc, rendered, message, calls,
          spi_results, student_avg, expanded, selected_option, lookup

engine_vars == <<student_data, passing_score, pc, spi_score, status, status_color, details>>

render_vars ==
    <<file_exists, absent_column, df, rpc, rendered, message, calls,
      spi_results, student_avg, expanded, selected_option, lookup>>

vars == <<engine_vars, render_vars>>

----------------------------------------------------------------------------
(* Bounds of the inputs *)

\* largest number of rows of the record sets drawn from Rows
MaxRows == 2

Courses == {"Math", "Science", "Art"}
AssessmentNos == 1..3
Scores == {50, 60, 100}
AttendanceRates == {0, 500}
RaisedHandCounts == {0, 30, 1000}
PassingScores == {50, 60}

\* rows that vary the course, the assessment number and the score
GradeRows ==
    [course_name : Courses, assessment_no : AssessmentNos,
     assessment_score : Scores, attendance_rate : {100},
     raised_hand_count : {0}]

\* rows that vary attendance and participation, out-of-range values included
ParticipationRows ==
    [course_name : {"Math"}, assessment_no : {1},
     assessment_score : {0}, attendance_rate : AttendanceRates,
     raised_hand_count : RaisedHandCounts]

Rows == GradeRows \cup ParticipationRows

Row(c, n, s, a, h) ==
    [course_name |-> c, assessment_no |-> n, assessment_score |-> s,
     attendance_rate |-> a, raised_hand_count |-> h]

\* the worked record sets of the specification's scenarios
ScenarioExcellent == <<Row("Math", 1, 90, 100, 30), Row("Math", 2, 90, 100, 30)>>
ScenarioOneFailed == <<Row("Math", 1, 40, 50, 0), Row("Art", 1, 90, 50, 0)>>
ScenarioDecline ==
    <<Row("Math", 1, 80, 100, 0), Row("Math", 2, 85, 100, 0), Row("Math", 3, 60, 100, 0)>>
Scenarios == {ScenarioExcellent, ScenarioOneFailed, ScenarioDecline}

\* three-row record sets on the boundaries of the penalties: two failed
\* courses among three, a course mean equal to the passing score next to a
\* course with one low row, a dip in the middle assessment only
CaseTwoOfThreeFailed ==
    <<Row("Math", 1, 50, 100, 0), Row("Science", 1, 50, 100, 0), Row("Art", 1, 100, 100, 0)>>
CaseMeanAtPassing ==
    <<Row("Math", 1, 50, 100, 0), Row("Math", 2, 100, 100, 0), Row("Science", 1, 60, 100, 0)>>
CaseMiddleDip ==
    <<Row("Math", 1, 100, 100, 0), Row("Math", 2, 50, 100, 0), Row("Math", 3, 100, 100, 0)>>
BoundaryCases == {CaseTwoOfThreeFailed, CaseMeanAtPassing, CaseMiddleDip}

\* the best record set within the expected ranges: full marks, full
\* attendance and participation far above the ceiling
CasePerfect == <<Row("Math", 1, 100, 100, 1000)>>

\* the non-empty record sets handed to the engine
RecordSets ==
    UNION {[1..n -> Rows] : n \in 1..MaxRows}
        \cup Scenarios \cup BoundaryCases \cup {CasePerfect}

----------------------------------------------------------------------------
(* Exact rational arithmetic: the numbers the float expressions denote *)

RECURSIVE GCD(_, _)
GCD(a, b) == IF b = 0 THEN a ELSE GCD(b, a % b)

Abs(n) == IF n < 0 THEN -n ELSE n

\* n/d in lowest terms, d > 0
Rat(n, d) ==
    LET g == GCD(Abs(n), d)
    IN  [num |-> n \div g, den |-> d \div g]

FromInt(n) == [num |-> n, den |-> 1]

RAdd(a, b) == Rat(a.num * b.den + b.num * a.den, a.den * b.den)
RSub(a, b) == Rat(a.num * b.den - b.num * a.den, a.den * b.den)
RMul(a, b) == Rat(a.num * b.num, a.den * b.den)
RLt(a, b) == a.num * b.den < b.num * a.den
RLe(a, b) == a.num * b.den <= b.num * a.den
RGe(a, b) == ~RLt(a, b)

\* Python's min(a, b) and max(a, b): the first argument unless the second is
\* strictly smaller (larger)
PyMin(a, b) == IF RLt(b, a) THEN b ELSE a
PyMax(a, b) == IF RLt(a, b) THEN b ELSE a

----------------------------------------------------------------------------
(* pandas: column mean and groupby(key)[column].mean() *)

RECURSIVE SumCol(_, _)
SumCol(rows, col) ==
    IF rows = <<>> THEN 0 ELSE Head(rows)[col] + SumCol(Tail(rows), col)

\* Series.mean() of a column of a non-empty frame
Mean(rows, col) == Rat(SumCol(rows, col), Len(rows))

\* the rows of one group, in frame order
GroupRows(rows, key, k) == SelectSeq(rows, LAMBDA r : r[key] = k)

\* groupby(key)['assessment_score'].mean(): one mean per distinct key
GroupByMean(rows, key) ==
    [k \in {rows[i][key] : i \in DOMAIN rows} |->
        Mean(GroupRows(rows, key, k), "assessment_score")]

\* groupby sorts the group keys, so position 0 is the smallest key and
\* position -1 the largest
IlocFirst(series) ==
    series[CHOOSE k \in DOMAIN series : \A j \in DOMAIN series : k <= j]
IlocLast(series) ==
    series[CHOOSE k \in DOMAIN series : \A j \in DOMAIN series : k >= j]

----------------------------------------------------------------------------
(* calculate_student_performance_index *)

WEIGHT_ACADEMIC == Rat(60, 100)
WEIGHT_ATTENDANCE == Rat(25, 100)
WEIGHT_ENGAGEMENT == Rat(15, 100)

\* variant: the academic share is subtracted instead of added
AcademicComponentNegated(avg_score) == RMul(avg_score, Rat(-60, 100))

\* avg_score * 0.60
AcademicComponent(avg_score) == RMul(avg_score, WEIGHT_ACADEMIC)

\* avg_attendance * 0.25
AttendanceComponent(avg_attendance) == RMul(avg_attendance, WEIGHT_ATTENDANCE)

\* variant: the cap at 100 is left out
NormalizedEngagementUncapped(avg_engagement) ==
    RMul(RMul(avg_engagement, Rat(1, 30)), FromInt(100))

\* variant: the cap is applied before the scaling to 0-100
NormalizedEngagementCapMisplaced(avg_engagement) ==
    RMul(PyMin(RMul(avg_engagement, Rat(1, 30)), FromInt(100)), FromInt(100))

\* min(avg_engagement / 30 * 100, 100)
NormalizedEngagement(avg_engagement) ==
    PyMin(RMul(RMul(avg_engagement, Rat(1, 30)), FromInt(100)), FromInt(100))

\* normalized_engagement * 0.15
EngagementComponent(normalized_engagement) ==
    RMul(normalized_engagement, WEIGHT_ENGAGEMENT)

\* variant: the engagement component is left out of the sum
BaseSpiNoEngagement(academic_component, attendance_component, engagement_component) ==
    RAdd(academic_component, attendance_component)

\* academic_component + attendance_component + engagement_component
BaseSpi(academic_component, attendance_component, engagement_component) ==
    RAdd(RAdd(academic_component, attendance_component), engagement_component)

\* variant: a course whose mean equals the passing score counts as failed
FailedCoursesInclusive(rows, passing) ==
    LET courses_performance == GroupByMean(rows, "course_name")
    IN  Cardinality({c \in DOMAIN courses_performance :
                        RLe(courses_performance[c], FromInt(passing))})

\* (courses_performance < passing_score).sum()
FailedCourses(rows, passing) ==
    LET courses_performance == GroupByMean(rows, "course_name")
    IN  Cardinality({c \in DOMAIN courses_performance :
                        RLt(courses_performance[c], FromInt(passing))})

\* variant: the larger penalty starts at three failed courses
FailurePenaltyOffByOne(failed_courses) ==
    IF failed_courses = 1 THEN 5
    ELSE IF failed_courses > 2 THEN 10
    ELSE 0

FailurePenalty(failed_courses) ==
    IF failed_courses = 1 THEN 5
    ELSE IF failed_courses >= 2 THEN 10
    ELSE 0

\* variant: the last assessment is compared with the one just before it
PerformanceChangeConsecutive(rows) ==
    LET assessment_scores == GroupByMean(rows, "assessment_no")
        keys == DOMAIN assessment_scores
        last == CHOOSE k \in keys : \A j \in keys : k >= j
        prev == CHOOSE k \in keys \ {last} : \A j \in keys \ {last} : k >= j
    IN  IF Cardinality(keys) >= 2
        THEN RSub(assessment_scores[last], assessment_scores[prev])
        ELSE FromInt(0)

\* variant: no grouping, the last row is compared with the first row
PerformanceChangeByRow(rows) ==
    IF Len(rows) >= 2
    THEN FromInt(rows[Len(rows)].assessment_score - rows[1].assessment_score)
    ELSE FromInt(0)

\* variant: the groups are kept in order of first appearance, not sorted
PerformanceChangeUnsorted(rows) ==
    LET assessment_scores == GroupByMean(rows, "assessment_no")
        keys == DOMAIN assessment_scores
        FirstAt(k) == CHOOSE i \in DOMAIN rows :
                        /\ rows[i].assessment_no = k
                        /\ \A j \in 1..(i - 1) : rows[j].assessment_no # k
        last == CHOOSE k \in keys : \A j \in keys : FirstAt(k) >= FirstAt(j)
    IN  IF Cardinality(keys) >= 2
        THEN RSub(assessment_scores[last], assessment_scores[rows[1].assessment_no])
        ELSE FromInt(0)

\* last_avg - first_avg over the assessment_no groups, 0 with fewer than two
PerformanceChange(rows) ==
    LET assessment_scores == GroupByMean(rows, "assessment_no")
    IN  IF Cardinality(DOMAIN assessment_scores) >= 2
        THEN RSub(IlocLast(assessment_scores), IlocFirst(assessment_scores))
        ELSE FromInt(0)

\* variant: any change of more than 10 points, up or down, is penalised
TrendPenaltyOnAnyChange(performance_change) ==
    IF RLt(FromInt(10), Rat(Abs(performance_change.num), performance_change.den))
    THEN 5 ELSE 0

\* variant: a drop of exactly 10 points is penalised too
TrendPenaltyInclusive(performance_change) ==
    IF RLe(performance_change, FromInt(-10)) THEN 5 ELSE 0

TrendPenalty(performance_change) ==
    IF RLt(performance_change, FromInt(-10)) THEN 5 ELSE 0

\* variant: the lower bound is left out
ClampNoFloor(score) == PyMin(FromInt(100), score)

\* max(0, min(100, spi_score))
Clamp(score) == PyMax(FromInt(0), PyMin(FromInt(100), score))

\* variant: the lower bound of each band is open
ClassifyOpenBounds(score) ==
    IF RLt(FromInt(80), score) THEN "EXCELLENT"
    ELSE IF RLt(FromInt(65), score) THEN "SATISFACTORY"
    ELSE IF RLt(FromInt(50), score) THEN "AT RISK"
    ELSE "CRITICAL"

Classify(score) ==
    IF RGe(score, FromInt(80)) THEN "EXCELLENT"
    ELSE IF RGe(score, FromInt(65)) THEN "SATISFACTORY"
    ELSE IF RGe(score, FromInt(50)) THEN "AT RISK"
    ELSE "CRITICAL"

StatusColor(score) ==
    IF RGe(score, FromInt(80)) THEN "#2E7D32"
    ELSE IF RGe(score, FromInt(65)) THEN "#F57C00"
    ELSE IF RGe(score, FromInt(50)) THEN "#EF6C00"
    ELSE "#C62828"

\* the whole function: what it returns for a non-empty record set
SPI(rows, passing) ==
    LET academic_component == AcademicComponent(Mean(rows, "assessment_score"))
        attendance_component == AttendanceComponent(Mean(rows, "attendance_rate"))
        normalized_engagement == NormalizedEngagement(Mean(rows, "raised_hand_count"))
        engagement_component == EngagementComponent(normalized_engagement)
        base_spi == BaseSpi(academic_component, attendance_component,
                            engagement_component)
        failed_courses == FailedCourses(rows, passing)
        failure_penalty == FailurePenalty(failed_courses)
        performance_change == PerformanceChange(rows)
        trend_penalty == TrendPenalty(performance_change)
        score == Clamp(RSub(RSub(base_spi, FromInt(failure_penalty)),
                            FromInt(trend_penalty)))
    IN  [spi_score |-> score,
         status |-> Classify(score),
         status_color |-> StatusColor(score),
         details |->
            [base_spi |-> base_spi,
             academic_component |-> academic_component,
             attendance_component |-> attendance_component,
             engagement_component |-> engagement_component,
             failure_penalty |-> failure_penalty,
             trend_penalty |-> trend_penalty,
             failed_courses |-> failed_courses,
             performance_trend |-> performance_change,
             normalized_engagement |-> normalized_engagement]]

----------------------------------------------------------------------------
(* The call *)

Zero == FromInt(0)

NoDetails ==
    [base_spi |-> Zero, academic_component |-> Zero, attendance_component |-> Zero,
     engagement_component |-> Zero, failure_penalty |-> 0, trend_penalty |-> 0,
     failed_courses |-> 0, performance_trend |-> Zero, normalized_engagement |-> Zero]

\* no render pass is running
NoLookup == [shown |-> FALSE, passing_courses |-> 0, total_courses |-> 0]

RenderIdle ==
    /\ file_exists = TRUE
    /\ absent_column = "none"
    /\ df = <<>>
    /\ rpc = "idle"
    /\ rendered = <<>>
    /\ message = "none"
    /\ calls = <<>>
    /\ spi_results = <<>>
    /\ student_avg = <<>>
    /\ expanded = {}
    /\ selected_option = "Choose a student..."
    /\ lookup = NoLookup

Init ==
    /\ student_data \in RecordSets
    /\ passing_score \in PassingScores
    /\ pc = "call"
    /\ spi_score = Zero
    /\ status = "NONE"
    /\ status_color = "NONE"
    /\ details = NoDetails
    /\ RenderIdle

calculate_student_performance_index ==
    /\ pc = "call"
    /\ LET r == SPI(student_data, passing_score)
       IN  /\ spi_score' = r.spi_score
           /\ status' = r.status
           /\ status_color' = r.status_color
           /\ details' = r.details
    /\ pc' = "returned"
    /\ UNCHANGED <<student_data, passing_score>>
    /\ UNCHANGED render_vars

Next == calculate_student_performance_index

Spec == Init /\ [][Next]_vars

Returned == pc = "returned"

----------------------------------------------------------------------------
(* The render pass: its inputs *)

\* largest number of rows of the dataset file
MaxDatasetRows == 2

StudentIds == {1, 2}
DatasetCourses == {"Math", "Art", "Art "}
DatasetScores == {25, 50, 60, 100}

\* class_level of a student, the same on all of the student's rows
ClassLevel(student_id) == IF student_id = 1 THEN "C2" ELSE "C1"

DatasetRows ==
    [student_id : StudentIds, course_name : DatasetCourses, assessment_no : {1},
     assessment_score : DatasetScores, attendance_rate : {100},
     raised_hand_count : {30}]

\* the contents of Students_Dataset.csv
Datasets == UNION {[1..n -> DatasetRows] : n \in 1..MaxDatasetRows}

\* the columns read before the first element is shown
PreprocessColumns ==
    {"student_name", "course_name", "class_level", "assessment_score",
     "raised_hand_count", "moodle_views", "resources_downloads", "student_id",
     "attendance_rate"}

\* every column the script reads
RequiredColumns == PreprocessColumns \cup {"assessment_no", "student_gender"}

PASSING_SCORE == 60

----------------------------------------------------------------------------
(* The render pass: helpers *)

\* str.strip() on the course names of the bounded dataset
Strip(name) == IF name = "Art " THEN "Art" ELSE name

\* df[df['student_id'] == student_id]
StudentRows(frame, student_id) ==
    SelectSeq(frame, LAMBDA r : r.student_id = student_id)

RECURSIVE SortedSeq(_)
SortedSeq(S) ==
    IF S = {} THEN <<>>
    ELSE LET least == CHOOSE k \in S : \A j \in S : k <= j
         IN  <<least>> \o SortedSeq(S \ {least})

\* variant: the loop runs over every id of the school register, enrolled
\* in the frame or not
CohortStudentIdsOfRegister(frame) == SortedSeq(StudentIds)

\* variant: the loop runs over the student_id column of the frame itself,
\* one iteration per row
CohortStudentIdsPerRow(frame) == [i \in DOMAIN frame |-> frame[i].student_id]

\* student_avg['student_id'] after groupby('student_id'): the distinct
\* student ids of the frame, ascending
CohortStudentIds(frame) ==
    SortedSeq({frame[i].student_id : i \in DOMAIN frame})

\* a float NaN
NaN == [num |-> 0, den |-> 0]

\* what the function returns for a frame without rows: every mean is NaN,
\* min(100, NaN) is 100 and max(0, 100) is 100
EmptyFrameResult ==
    [spi_score |-> FromInt(100),
     status |-> "EXCELLENT",
     status_color |-> "#2E7D32",
     details |->
        [base_spi |-> NaN, academic_component |-> NaN, attendance_component |-> NaN,
         engagement_component |-> NaN, failure_penalty |-> 0, trend_penalty |-> 0,
         failed_courses |-> 0, performance_trend |-> Zero,
         normalized_engagement |-> NaN]]

\* variant: the failure penalty of the previous invocation is carried into
\* the next one
InvokeCarryingPenalty(rows, passing) ==
    [SPI(rows, passing) EXCEPT
        !.spi_score = RSub(@, FromInt(details.failure_penalty))]

\* variant: the function keeps a counter between invocations and lowers
\* the score by it
InvokeWithCallCounter(rows, passing) ==
    [SPI(rows, passing) EXCEPT !.spi_score = RSub(@, FromInt(Len(calls)))]

\* one invocation of calculate_student_performance_index
Invoke(rows, passing) ==
    IF rows = <<>> THEN EmptyFrameResult ELSE SPI(rows, passing)

\* variant: the lookup leaves the argument out of its call, so the
\* parameter takes another value there
PassingArgumentLookupOther(site) == IF site = "lookup" THEN 50 ELSE PASSING_SCORE

\* the passing score handed to the engine at a call site
PassingArgument(site) == PASSING_SCORE

\* variant: only the lowest band is flagged
AtRiskCriticalOnly(st) == st = "CRITICAL"

\* student_avg['status'].isin(['AT RISK', 'CRITICAL'])
AtRisk(st) == st \in {"AT RISK", "CRITICAL"}

\* variant: one except clause for every exception
HandlerGenericOnly(exception) == "error"

\* the except clauses of the script
Handler(exception) ==
    IF exception = "FileNotFoundError" THEN "not_found" ELSE "error"

\* the entry of the invocation log
Call(site, student_id, rows, passing, result) ==
    [site |-> site, student_id |-> student_id, rows |-> rows,
     passing |-> passing, result |-> result]

\* student_avg.merge(spi_df, on='student_id'): for each student of the
\* summary, every result row with that student_id
RECURSIVE Merge(_, _, _)
Merge(ids, results, frame) ==
    IF ids = <<>> THEN <<>>
    ELSE LET id == Head(ids)
             matching == SelectSeq(results, LAMBDA r : r.student_id = id)
             joined ==
                [i \in DOMAIN matching |->
                    [student_id |-> id,
                     class_level |-> ClassLevel(id),
                     assessment_score |->
                        Mean(StudentRows(frame, id), "assessment_score"),
                     spi_score |-> matching[i].spi_score,
                     status |-> matching[i].status,
                     status_color |-> matching[i].status_color,
                     at_risk |-> AtRisk(matching[i].status)]]
         IN  joined \o Merge(Tail(ids), results, frame)

\* the options of the lookup's select box
SearchOptions(frame) ==
    {"Choose a student..."} \cup
        {ToString(frame[i].student_id) : i \in DOMAIN frame}

\* variant: a course counts as passing only above the passing score
PassingCoursesStrict(rows, passing) ==
    LET courses_performance == GroupByMean(rows, "course_name")
    IN  Cardinality({c \in DOMAIN courses_performance :
                        RLt(FromInt(passing), courses_performance[c])})

\* (courses_performance >= PASSING_SCORE).sum()
PassingCourses(rows, passing) ==
    LET courses_performance == GroupByMean(rows, "course_name")
    IN  Cardinality({c \in DOMAIN courses_performance :
                        RGe(courses_performance[c], FromInt(passing))})

\* len(courses_performance)
TotalCourses(rows) == Cardinality(DOMAIN GroupByMean(rows, "course_name"))

----------------------------------------------------------------------------
(* The render pass: the module-level try block, one action per step *)

\* the sections before the risk overview, in the order of the script
StaticSections ==
    <<"title", "performance_overview", "score_distribution",
      "performance_by_structure", "assessment_progression",
      "engagement_vs_performance">>

\* the columns a section reads after its header is emitted
SectionReads(section) ==
    CASE section = "title" -> {}
      [] section = "performance_overview" -> {"assessment_score"}
      [] section = "score_distribution" -> {"assessment_score", "class_level"}
      [] section = "performance_by_structure" ->
            {"class_level", "moodle_views", "resources_downloads", "course_name",
             "assessment_score"}
      [] section = "assessment_progression" -> {"assessment_no", "assessment_score"}
      [] section = "engagement_vs_performance" ->
            {"attendance_rate", "assessment_score", "raised_hand_count",
             "moodle_views"}

\* sorted(student_avg['class_level'].unique()) orders "C1" before "C2"
ClassRank(class_level) == IF class_level = "C1" THEN 1 ELSE 2

\* the tabs by class level, each sorted by sort_values('spi_score')
Before(a, b) ==
    \/ ClassRank(a.class_level) < ClassRank(b.class_level)
    \/ a.class_level = b.class_level /\ RLt(a.spi_score, b.spi_score)

\* the indices of student_avg whose expander has been rendered
ExpandedRows == {e.row : e \in expanded}

\* the names the function's result is unpacked into
Unpack(result) ==
    /\ spi_score' = result.spi_score
    /\ status' = result.status
    /\ status_color' = result.status_color
    /\ details' = result.details
    /\ pc' = "returned"

\* leaving the try block through an except clause
Raise(exception) ==
    /\ message' = Handler(exception)
    /\ rpc' = "done"

RenderInit ==
    /\ student_data = <<>>
    /\ passing_score = PASSING_SCORE
    /\ pc = "idle"
    /\ spi_score = Zero
    /\ status = "NONE"
    /\ status_color = "NONE"
    /\ details = NoDetails
    /\ \/ file_exists = FALSE /\ absent_column = "none" /\ df = <<>>
       \/ /\ file_exists = TRUE
          /\ absent_column \in {"none"} \cup RequiredColumns
          /\ df \in Datasets
    /\ rpc = "load"
    /\ rendered = <<>>
    /\ message = "none"
    /\ calls = <<>>
    /\ spi_results = <<>>
    /\ student_avg = <<>>
    /\ expanded = {}
    /\ selected_option = "Choose a student..."
    /\ lookup = NoLookup

load_data ==
    /\ rpc = "load"
    /\ IF file_exists
          THEN rpc' = "preprocess" /\ UNCHANGED message
          ELSE Raise("FileNotFoundError")
    /\ UNCHANGED <<engine_vars, file_exists, absent_column, df, rendered, calls,
                   spi_results, student_avg, expanded, selected_option, lookup>>

preprocess ==
    /\ rpc = "preprocess"
    /\ IF absent_column \in PreprocessColumns
          THEN Raise("KeyError") /\ UNCHANGED df
          ELSE /\ df' = [i \in DOMAIN df |->
                            [df[i] EXCEPT !.course_name = Strip(@)]]
               /\ rpc' = "section"
               /\ UNCHANGED message
    /\ UNCHANGED <<engine_vars, file_exists, absent_column, rendered, calls,
                   spi_results, student_avg, expanded, selected_option, lookup>>

render_section ==
    /\ rpc = "section"
    /\ LET section == StaticSections[Len(rendered) + 1]
       IN  /\ rendered' = Append(rendered, section)
           /\ IF absent_column \in SectionReads(section)
                 THEN Raise("KeyError")
                 ELSE /\ rpc' = IF Len(rendered') = Len(StaticSections)
                                   THEN "risk_overview" ELSE "section"
                      /\ UNCHANGED message
    /\ UNCHANGED <<engine_vars, file_exists, absent_column, df, calls,
                   spi_results, student_avg, expanded, selected_option, lookup>>

risk_overview ==
    /\ rpc = "risk_overview"
    /\ rendered' = Append(rendered, "risk_overview")
    /\ rpc' = "cohort_loop"
    /\ UNCHANGED <<engine_vars, file_exists, absent_column, df, message, calls,
                   spi_results, student_avg, expanded, selected_option, lookup>>

cohort_step ==
    /\ rpc = "cohort_loop"
    /\ Len(spi_results) < Len(CohortStudentIds(df))
    /\ LET student_id == CohortStudentIds(df)[Len(spi_results) + 1]
           rows == StudentRows(df, student_id)
           passing == PassingArgument("cohort")
           result == Invoke(rows, passing)
       IN  /\ student_data' = rows
           /\ passing_score' = passing
           /\ Unpack(result)
           /\ calls' = Append(calls, Call("cohort", student_id, rows, passing, result))
           /\ spi_results' = Append(spi_results,
                                [student_id |-> student_id,
                                 spi_score |-> result.spi_score,
                                 status |-> result.status,
                                 status_color |-> result.status_color])
    /\ UNCHANGED <<file_exists, absent_column, df, rpc, rendered, message,
                   student_avg, expanded, selected_option, lookup>>

cohort_merge ==
    /\ rpc = "cohort_loop"
    /\ Len(spi_results) = Len(CohortStudentIds(df))
    /\ student_avg' = Merge(SortedSeq({df[i].student_id : i \in DOMAIN df}),
                            spi_results, df)
    /\ rpc' = "at_risk_analysis"
    /\ UNCHANGED <<engine_vars, file_exists, absent_column, df, rendered, message,
                   calls, spi_results, expanded, selected_option, lookup>>

at_risk_analysis ==
    /\ rpc = "at_risk_analysis"
    /\ rendered' = Append(rendered, "at_risk_analysis")
    /\ rpc' = "expanders"
    /\ UNCHANGED <<engine_vars, file_exists, absent_column, df, message, calls,
                   spi_results, student_avg, expanded, selected_option, lookup>>

expand_at_risk_student ==
    /\ rpc = "expanders"
    /\ \E i \in DOMAIN student_avg \ ExpandedRows :
          /\ student_avg[i].at_risk
          /\ \A j \in DOMAIN student_avg \ ExpandedRows :
                student_avg[j].at_risk => ~Before(student_avg[j], student_avg[i])
          /\ LET student == student_avg[i]
                 rows == StudentRows(df, student.student_id)
                 passing == PassingArgument("at_risk")
                 result == Invoke(rows, passing)
             IN  /\ student_data' = rows
                 /\ passing_score' = passing
                 /\ pc' = "returned"
                 /\ calls' = Append(calls,
                        Call("at_risk", student.student_id, rows, passing, result))
                 /\ expanded' = expanded \cup
                        {[row |-> i,
                          failing_average |->
                             RLt(student.assessment_score, FromInt(PASSING_SCORE))]}
    /\ UNCHANGED <<spi_score, status, status_color, details, file_exists,
                   absent_column, df, rpc, rendered, message, spi_results,
                   student_avg, selected_option, lookup>>

priority_actions ==
    /\ rpc = "expanders"
    /\ \A i \in DOMAIN student_avg \ ExpandedRows : ~student_avg[i].at_risk
    /\ rendered' = Append(rendered, "priority_actions")
    /\ rpc' = "lookup_select"
    /\ UNCHANGED <<engine_vars, file_exists, absent_column, df, message, calls,
                   spi_results, student_avg, expanded, selected_option, lookup>>

lookup_select ==
    /\ rpc = "lookup_select"
    /\ rendered' = Append(rendered, "student_lookup")
    /\ selected_option' \in SearchOptions(df)
    /\ rpc' = "lookup"
    /\ UNCHANGED <<engine_vars, file_exists, absent_column, df, message, calls,
                   spi_results, student_avg, expanded, lookup>>

lookup_student ==
    /\ rpc = "lookup"
    /\ IF selected_option = "Choose a student..."
          THEN /\ rpc' = "done"
               /\ UNCHANGED <<engine_vars, rendered, message, calls, lookup>>
          ELSE LET student_id == CHOOSE id \in StudentIds :
                                    ToString(id) = selected_option
                   rows == StudentRows(df, student_id)
                   passing == PassingArgument("lookup")
                   result == Invoke(rows, passing)
               IN  /\ student_data' = rows
                   /\ IF Len(rows) > 0
                         THEN IF absent_column = "student_gender"
                                 THEN /\ Raise("KeyError")
                                      /\ UNCHANGED <<passing_score, pc, spi_score,
                                                     status, status_color, details,
                                                     rendered, calls, lookup>>
                                 ELSE /\ passing_score' = passing
                                      /\ Unpack(result)
                                      /\ calls' = Append(calls,
                                            Call("lookup", student_id, rows, passing,
                                                 result))
                                      /\ lookup' =
                                            [shown |-> TRUE,
                                             passing_courses |->
                                                PassingCourses(rows, PASSING_SCORE),
                                             total_courses |-> TotalCourses(rows)]
                                      /\ rendered' = Append(rendered, "student_profile")
                                      /\ rpc' = "done"
                                      /\ UNCHANGED message
                         ELSE /\ message' = "no_student"
                              /\ rpc' = "done"
                              /\ UNCHANGED <<passing_score, pc, spi_score, status,
                                             status_color, details, rendered, calls,
                                             lookup>>
    /\ UNCHANGED <<file_exists, absent_column, df, spi_results, student_avg,
                   expanded, selected_option>>

\* student_avg has been merged with the results of the cohort loop
Merged == rpc \in {"at_risk_analysis", "expanders", "lookup_select", "lookup", "done"}
             /\ student_avg # <<>>

\* student_avg['student_id'].nunique()
total_students == Cardinality({student_avg[i].student_id : i \in DOMAIN student_avg})

\* student_avg['at_risk'].sum()
at_risk_total == Cardinality({i \in DOMAIN student_avg : student_avg[i].at_risk})

passing_total == total_students - at_risk_total

\* student_avg['status'].value_counts()
status_counts(st) == Cardinality({i \in DOMAIN student_avg : student_avg[i].status = st})

RenderNext ==
    \/ load_data
    \/ preprocess
    \/ render_section
    \/ risk_overview
    \/ cohort_step
    \/ cohort_merge
    \/ at_risk_analysis
    \/ expand_at_risk_student
    \/ priority_actions
    \/ lookup_select
    \/ lookup_student

RenderSpec == RenderInit /\ [][RenderNext]_vars

\* the pass has run to its end or to an except clause
Done == rpc = "done"

----------------------------------------------------------------------------
(* Quantities of the record set, computed directly from the rows *)

N == Len(student_data)
ScoreSum == SumCol(student_data, "assessment_score")
AttendanceSum == SumCol(student_data, "attendance_rate")
HandSum == SumCol(student_data, "raised_hand_count")

CourseNames == {student_data[i].course_name : i \in DOMAIN student_data}
AssessmentNumbers == {student_data[i].assessment_no : i \in DOMAIN student_data}
MinNo == CHOOSE k \in AssessmentNumbers : \A j \in AssessmentNumbers : k <= j
MaxNo == CHOOSE k \in AssessmentNumbers : \A j \in AssessmentNumbers : k >= j

RowsOfCourse(c) == {i \in DOMAIN student_data : student_data[i].course_name = c}
RowsOfNo(k) == {i \in DOMAIN student_data : student_data[i].assessment_no = k}

RECURSIVE ScoreTotal(_)
ScoreTotal(I) ==
    IF I = {} THEN 0
    ELSE LET i == CHOOSE j \in I : TRUE
         IN  student_data[i].assessment_score + ScoreTotal(I \ {i})

\* base_spi - failure_penalty - trend_penalty of the returned breakdown
Unclamped ==
    RSub(RSub(details.base_spi, FromInt(details.failure_penalty)),
         FromInt(details.trend_penalty))

----------------------------------------------------------------------------
(* The claims *)

\* C1: for every non-empty record set and passing score the returned score
\* lies in [0, 100], out-of-range inputs included.
C1_ScoreInRange ==
    Returned => RLe(FromInt(0), spi_score) /\ RLe(spi_score, FromInt(100))

\* a return whose base minus penalties is negative: the lower clamp acts
C1_Witness ==
    /\ Returned
    /\ RLt(Unclamped, FromInt(0))
    /\ spi_score = FromInt(0)

\* C2: the returned status is the band of the returned score, lower bounds
\* closed: >= 80 EXCELLENT, [65, 80) SATISFACTORY, [50, 65) AT RISK,
\* below 50 CRITICAL.
C2_StatusIsBandOfScore ==
    Returned =>
        /\ status \in {"EXCELLENT", "SATISFACTORY", "AT RISK", "CRITICAL"}
        /\ status = "EXCELLENT" <=> spi_score.num >= 80 * spi_score.den
        /\ status = "SATISFACTORY" <=>
              (spi_score.num >= 65 * spi_score.den /\ spi_score.num < 80 * spi_score.den)
        /\ status = "AT RISK" <=>
              (spi_score.num >= 50 * spi_score.den /\ spi_score.num < 65 * spi_score.den)
        /\ status = "CRITICAL" <=> spi_score.num < 50 * spi_score.den

\* a return with the score exactly on a band's lower bound
C2_Witness ==
    /\ Returned
    /\ spi_score = FromInt(65)
    /\ status = "SATISFACTORY"

\* the weighted sum 0.60 mean(score) + 0.25 mean(attendance) +
\* 0.15 min(mean(hands) / 30 * 100, 100), over the denominator 3000 N
WeightedSum ==
    LET capped == IF 100 * HandSum > 3000 * N THEN 3000 * N ELSE 100 * HandSum
    IN  Rat(1800 * ScoreSum + 750 * AttendanceSum + 15 * capped, 3000 * N)

\* C3: the final score is the weighted sum minus the failure penalty minus
\* the trend penalty, clamped to [0, 100]; base_spi is the unclamped weighted
\* sum; scores [90, 90], attendance 100, 30 hand raises in one course give
\* academic 54, attendance 25, engagement 15, base 94, final 94, EXCELLENT.
C3_FinalScoreFormula ==
    Returned =>
        LET raw == RSub(RSub(WeightedSum, FromInt(details.failure_penalty)),
                        FromInt(details.trend_penalty))
        IN  /\ details.base_spi = WeightedSum
            /\ spi_score = IF RLt(raw, FromInt(0)) THEN FromInt(0)
                           ELSE IF RLt(FromInt(100), raw) THEN FromInt(100)
                           ELSE raw
            /\ student_data = ScenarioExcellent =>
                  /\ details.academic_component = FromInt(54)
                  /\ details.attendance_component = FromInt(25)
                  /\ details.engagement_component = FromInt(15)
                  /\ details.base_spi = FromInt(94)
                  /\ details.failed_courses = 0
                  /\ details.trend_penalty = 0
                  /\ spi_score = FromInt(94)
                  /\ status = "EXCELLENT"

\* the worked scenario has been evaluated
C3_Witness ==
    /\ Returned
    /\ student_data = ScenarioExcellent
    /\ passing_score = 60
    /\ spi_score = FromInt(94)

\* C4: the failure penalty is 0 for no failed course, 5 for exactly one,
\* 10 for two or more, whatever the number of courses.
C4_FailurePenaltySteps ==
    Returned =>
        /\ details.failed_courses = 0 => details.failure_penalty = 0
        /\ details.failed_courses = 1 => details.failure_penalty = 5
        /\ details.failed_courses >= 2 => details.failure_penalty = 10
        /\ (student_data = ScenarioOneFailed /\ passing_score = 60) =>
              /\ details.failed_courses = 1
              /\ details.failure_penalty = 5
              /\ spi_score = RSub(details.base_spi, FromInt(5))

\* two failed courses among three
C4_Witness ==
    /\ Returned
    /\ Cardinality(CourseNames) = 3
    /\ details.failed_courses = 2
    /\ details.failure_penalty = 10

\* a course is failed when the mean of its rows is strictly below passing
CourseFailed(c) ==
    ScoreTotal(RowsOfCourse(c)) < passing_score * Cardinality(RowsOfCourse(c))

\* C5: failed_courses is the number of course_name groups whose mean score
\* is strictly below the passing score (a mean equal to it is not failed,
\* nor is a course with low rows but a mean at or above it).
C5_FailedCourseCount ==
    Returned =>
        details.failed_courses = Cardinality({c \in CourseNames : CourseFailed(c)})

\* one course with mean exactly the passing score, another with a row below
\* it but a mean above it, and neither counted
C5_Witness ==
    /\ Returned
    /\ details.failed_courses = 0
    /\ \E c \in CourseNames :
          ScoreTotal(RowsOfCourse(c)) = passing_score * Cardinality(RowsOfCourse(c))
    /\ \E c \in CourseNames :
          /\ \E i \in RowsOfCourse(c) : student_data[i].assessment_score < passing_score
          /\ ScoreTotal(RowsOfCourse(c)) > passing_score * Cardinality(RowsOfCourse(c))

\* the rows whose assessment_no is the smallest or the largest of the set
EndpointRows ==
    SelectSeq(student_data, LAMBDA r : r.assessment_no \in {MinNo, MaxNo})

\* the rows that could be added strictly between the two endpoints
MiddleRows == {r \in Rows : MinNo < r.assessment_no /\ r.assessment_no < MaxNo}

\* C6: the trend depends only on the lowest and the highest assessment_no
\* groups: dropping every row strictly between them, or adding any such row,
\* leaves performance_trend and trend_penalty unchanged.
C6_TrendIgnoresMiddle ==
    Returned =>
        /\ PerformanceChange(EndpointRows) = details.performance_trend
        /\ TrendPenalty(PerformanceChange(EndpointRows)) = details.trend_penalty
        /\ \A r \in MiddleRows :
              LET more == Append(student_data, r)
              IN  /\ PerformanceChange(more) = details.performance_trend
                  /\ TrendPenalty(PerformanceChange(more)) = details.trend_penalty

\* a sharp dip in the middle assessment and no decline between the endpoints
C6_Witness ==
    /\ Returned
    /\ Cardinality(AssessmentNumbers) = 3
    /\ \E i \in DOMAIN student_data :
          /\ student_data[i].assessment_no \notin {MinNo, MaxNo}
          /\ \A j \in DOMAIN student_data :
                student_data[j].assessment_no \in {MinNo, MaxNo} =>
                    student_data[j].assessment_score - student_data[i].assessment_score > 10
    /\ details.trend_penalty = 0
    /\ details.performance_trend = FromInt(0)

\* C7: with two or more distinct assessment_no values, performance_trend is
\* the mean of the largest assessment_no group minus the mean of the
\* smallest, and trend_penalty is 5 exactly when that change is below -10
\* (a change of exactly -10 gives 0); means [80, 85, 60] give -20 and 5.
C7_TrendFromEndpoints ==
    (Returned /\ Cardinality(AssessmentNumbers) >= 2) =>
        LET last_sum == ScoreTotal(RowsOfNo(MaxNo))
            last_n == Cardinality(RowsOfNo(MaxNo))
            first_sum == ScoreTotal(RowsOfNo(MinNo))
            first_n == Cardinality(RowsOfNo(MinNo))
            change_num == last_sum * first_n - first_sum * last_n
            change_den == last_n * first_n
        IN  /\ details.performance_trend.num * change_den =
                    change_num * details.performance_trend.den
            /\ details.trend_penalty = IF change_num < -10 * change_den THEN 5 ELSE 0
            /\ student_data = ScenarioDecline =>
                  /\ details.performance_trend = FromInt(-20)
                  /\ details.trend_penalty = 5

\* a drop of exactly 10 points, not penalised
C7_Witness ==
    /\ Returned
    /\ Cardinality(AssessmentNumbers) >= 2
    /\ details.performance_trend = FromInt(-10)
    /\ details.trend_penalty = 0

\* C8: when every row has the same assessment_no, performance_trend and
\* trend_penalty are 0.
C8_SingleAssessmentNoTrend ==
    (Returned /\ Cardinality(AssessmentNumbers) < 2) =>
        /\ details.performance_trend = FromInt(0)
        /\ details.trend_penalty = 0

\* one assessment_no, several rows and courses, scores falling row by row
C8_Witness ==
    /\ Returned
    /\ Cardinality(AssessmentNumbers) = 1
    /\ N >= 2
    /\ Cardinality(CourseNames) >= 2
    /\ student_data[N].assessment_score - student_data[1].assessment_score < -10
    /\ details.trend_penalty = 0

\* the record set with its rows rearranged by p
Permuted(p) == [i \in 1..N |-> student_data[p[i]]]

\* C9: first and last are chosen by assessment_no value, not row position:
\* every permutation of the rows gives the same score, status and breakdown.
C9_RowOrderIrrelevant ==
    Returned =>
        \A p \in Permutations(1..N) :
            SPI(Permuted(p), passing_score) =
                [spi_score |-> spi_score, status |-> status,
                 status_color |-> status_color, details |-> details]

\* the rows arrive with the highest assessment_no first and a decline is found
C9_Witness ==
    /\ Returned
    /\ N >= 2
    /\ student_data[1].assessment_no = MaxNo
    /\ student_data[N].assessment_no = MinNo
    /\ MinNo < MaxNo
    /\ details.trend_penalty = 5

\* C10: normalized_engagement is min(mean(raised_hand_count) / 30 * 100, 100):
\* linear below a mean of 30, 100 at 30 and above, so the engagement
\* component never exceeds 15.
C10_NormalizedEngagement ==
    Returned =>
        /\ details.normalized_engagement =
              IF HandSum >= 30 * N THEN FromInt(100) ELSE Rat(100 * HandSum, 30 * N)
        /\ RLe(details.engagement_component, FromInt(15))
        /\ details.engagement_component =
              RMul(details.normalized_engagement, Rat(15, 100))

\* a mean far above the ceiling of 30 is capped
C10_Witness ==
    /\ Returned
    /\ HandSum > 30 * N
    /\ details.normalized_engagement = FromInt(100)
    /\ details.engagement_component = FromInt(15)

\* the constants added to every assessment_score
ScoreIncrements == {10, 50}

\* the record set with every assessment_score raised by c
Raised(c) ==
    [i \in 1..N |-> [student_data[i] EXCEPT !.assessment_score = @ + c]]

\* raising every score by c moves no course mean across the passing score
NoCourseCrosses(c) ==
    \A course \in CourseNames :
        CourseFailed(course) <=>
            ScoreTotal(RowsOfCourse(course)) + c * Cardinality(RowsOfCourse(course))
                < passing_score * Cardinality(RowsOfCourse(course))

\* C11: raising every assessment_score by the same positive constant, with
\* attendance and hand raises unchanged and no course mean crossing the
\* passing score, does not lower the final score.
C11_ScoreMonotone ==
    Returned =>
        \A c \in ScoreIncrements :
            NoCourseCrosses(c) =>
                RLe(spi_score, SPI(Raised(c), passing_score).spi_score)

\* a failed course stays failed and the final score rises strictly
C11_Witness ==
    /\ Returned
    /\ details.failed_courses >= 1
    /\ \E c \in ScoreIncrements :
          /\ NoCourseCrosses(c)
          /\ RLt(spi_score, SPI(Raised(c), passing_score).spi_score)

\* every score and attendance rate within [0, 100], no negative hand count
InRange ==
    \A i \in DOMAIN student_data :
        /\ student_data[i].assessment_score \in 0..100
        /\ student_data[i].attendance_rate \in 0..100
        /\ student_data[i].raised_hand_count >= 0

\* C20: for in-range inputs the base SPI is within [0, 100], so the upper
\* clamp never changes the final score.
C20_BaseInRange ==
    (Returned /\ InRange) =>
        /\ RLe(FromInt(0), details.base_spi)
        /\ RLe(details.base_spi, FromInt(100))
        /\ spi_score = IF RLt(Unclamped, FromInt(0)) THEN FromInt(0) ELSE Unclamped

\* the in-range record set with the largest base: exactly 100
C20_Witness ==
    /\ Returned
    /\ InRange
    /\ HandSum > 30 * N
    /\ details.base_spi = FromInt(100)
    /\ spi_score = FromInt(100)

C13_AtRiskIffBelow65 ==
    \A i \in DOMAIN student_avg :
        /\ student_avg[i].at_risk <=> student_avg[i].status \in {"AT RISK", "CRITICAL"}
        /\ student_avg[i].status \in {"AT RISK", "CRITICAL"}
              <=> RLt(student_avg[i].spi_score, FromInt(65))

C13_Witness ==
    /\ Merged
    /\ \E i, j \in DOMAIN student_avg :
          /\ student_avg[i].spi_score = FromInt(65) /\ ~student_avg[i].at_risk
          /\ student_avg[j].status = "AT RISK" /\ student_avg[j].at_risk

\* the positions of the log at which the cohort loop invoked the function
\* for a student
CohortCalls(student_id) ==
    {i \in DOMAIN calls : calls[i].site = "cohort" /\ calls[i].student_id = student_id}

DistinctStudents == {df[i].student_id : i \in DOMAIN df}

\* C14: the cohort loop invokes the function exactly once per distinct
\* student_id, on that student's rows, and gives one result per distinct
\* student; every student has one status, the counts per status sum to the
\* number of distinct students and passing_total + at_risk_total is
\* total_students, passing_total being the number of students not at risk.
C14_OncePerStudent ==
    /\ \A i \in DOMAIN calls :
          calls[i].site = "cohort" =>
             /\ calls[i].student_id \in DistinctStudents
             /\ CohortCalls(calls[i].student_id) = {i}
             /\ calls[i].rows = StudentRows(df, calls[i].student_id)
    /\ Merged =>
          /\ \A id \in DistinctStudents :
                /\ Cardinality(CohortCalls(id)) = 1
                /\ Cardinality({i \in DOMAIN spi_results :
                                    spi_results[i].student_id = id}) = 1
                /\ Cardinality({i \in DOMAIN student_avg :
                                    student_avg[i].student_id = id}) = 1
          /\ Len(spi_results) = Cardinality(DistinctStudents)
          /\ total_students = Cardinality(DistinctStudents)
          /\ status_counts("EXCELLENT") + status_counts("SATISFACTORY")
                + status_counts("AT RISK") + status_counts("CRITICAL") = total_students
          /\ passing_total + at_risk_total = total_students
          /\ passing_total =
                Cardinality({i \in DOMAIN student_avg : ~student_avg[i].at_risk})

C14_Witness ==
    /\ Merged
    /\ total_students = 2
    /\ at_risk_total = 1
    /\ passing_total = 1
    /\ status_counts("AT RISK") = 1

\* C15: the function is never invoked with an empty record set: the cohort
\* loop and the at-risk breakdown use only student ids of the dataset, and
\* the lookup invokes it only for a student with at least one row, giving
\* the 'no student found' outcome otherwise.
C15_NeverEmpty ==
    /\ \A i \in DOMAIN calls :
          /\ calls[i].rows # <<>>
          /\ calls[i].student_id \in DistinctStudents
    /\ lookup.shown => student_data # <<>>
    /\ message = "no_student" =>
          /\ student_data = <<>>
          /\ \A i \in DOMAIN calls : calls[i].site # "lookup"

C15_Witness ==
    /\ Done
    /\ lookup.shown
    /\ {calls[i].site : i \in DOMAIN calls} = {"cohort", "at_risk", "lookup"}
    /\ Cardinality(DistinctStudents) = 2

\* C16: a render pass over a malformed dataset never renders partially:
\* whenever an error is reported, no section has been rendered before it.
C16_NoPartialRender == message = "error" => rendered = <<>>

ExpanderCalls(row) ==
    {i \in DOMAIN calls : /\ calls[i].site = "at_risk"
                          /\ calls[i].student_id = student_avg[row].student_id}

\* C18: within one render pass every invocation (cohort loop, at-risk
\* breakdown, lookup) receives the same passing score, and the pass's other
\* pass/fail derivations use that value too: the passing-course count of the
\* lookup complements the failed courses the function counted, and the
\* failing-average factor compares with the score the function was given.
C18_SamePassingScore ==
    /\ \A i, j \in DOMAIN calls : calls[i].passing = calls[j].passing
    /\ \A i \in DOMAIN calls : calls[i].passing = PASSING_SCORE
    /\ lookup.shown =>
          lookup.passing_courses + calls[Len(calls)].result.details.failed_courses
             = lookup.total_courses
    /\ \A e \in expanded : \A i \in ExpanderCalls(e.row) :
          e.failing_average <=>
             RLt(Mean(calls[i].rows, "assessment_score"), FromInt(calls[i].passing))

C18_Witness ==
    /\ Done
    /\ lookup.shown
    /\ lookup.passing_courses = 0
    /\ lookup.total_courses = 1
    /\ \E e \in expanded : e.failing_average /\ ExpanderCalls(e.row) # {}
    /\ {calls[i].site : i \in DOMAIN calls} = {"cohort", "at_risk", "lookup"}

\* the rows of a student in the frame
OwnRows(student_id) == SelectSeq(df, LAMBDA r : r.student_id = student_id)

DecliningTrend(spi_details) == spi_details.trend_penalty > 0

\* the lookup's 'Improving Trend' insight: spi_details['performance_trend'] > 10
ImprovingTrend(spi_details) == RLt(FromInt(10), spi_details.performance_trend)

\* C21: the returned breakdown is consistent for every record set:
\* failure_penalty is 0, 5 or 10 and positive exactly when failed_courses is
\* positive; trend_penalty is 0 or 5 and positive only when performance_trend
\* is below -10; so the conditions of the 'Declining Trend' and 'Improving
\* Trend' insights never both hold for one student.
C21_BreakdownConsistent ==
    Returned =>
        /\ details.failure_penalty \in {0, 5, 10}
        /\ details.failure_penalty > 0 <=> details.failed_courses > 0
        /\ details.trend_penalty \in {0, 5}
        /\ details.trend_penalty > 0 => RLt(details.performance_trend, FromInt(-10))
        /\ ~(DecliningTrend(details) /\ ImprovingTrend(details))

C21_Witness ==
    /\ Returned
    /\ details.failure_penalty = 5
    /\ details.trend_penalty = 5
    /\ DecliningTrend(details)
    /\ ~ImprovingTrend(details)

\* a course is passing when the mean of its rows is at or above passing
CoursePassing(c) ==
    ScoreTotal(RowsOfCourse(c)) >= passing_score * Cardinality(RowsOfCourse(c))

=============================================================================
